---- MODULE Spec2Model ----
(***************************************************************************)
(* Tourism database update system: the differ (change_detector.py), the   *)
(* update processor (update_processor.py), the change ledger              *)
(* (change_tracker.py) and the orchestrator (orchestrator.py).            *)
(*                                                                         *)
(* All field values are strings so that Python's None can be compared     *)
(* with any of them.  An Optional value is None == <<>> or Some(v) ==     *)
(* <<v>>.  A Python dict is a function whose DOMAIN is its key set.       *)
(***************************************************************************)
EXTENDS Integers, Sequences, FiniteSets, TLC

\* ------------------------------------------------------------------ bounds
MaxId == 2          \* number of distinct entity ids per table
MaxChanges == 2     \* longest change list handed to apply_changes for one table
MaxInvocations == 2 \* workflow invocations that may overlap in time
MaxRetries == 3     \* largest max_retries a DataSourceManager is configured with
MaxFailureLimit == 2 \* largest max_consecutive_failures of a scheduled job
MaxExecutions == 3  \* executions of scheduled jobs that are followed

\* --------------------------------------------------------------- constants
DefaultBatchSize == 100

\* ------------------------------------------------------------- data model
NULL == "NULL"
None == <<>>
Some(v) == <<v>>
IsSome(o) == Len(o) = 1
Val(o) == o[1]

IdName == <<"e1", "e2", "e3", "e4">>
Ids == {IdName[i] : i \in 1..MaxId}
IdSeq == [i \in 1..MaxId |-> IdName[i]]
\* the ids of S in a fixed iteration order
IdsInOrder(S) == SelectSeq(IdSeq, LAMBDA x : x \in S)

OldName == "Old Hotel"
NewName == "New Hotel"
Names == {OldName, NewName}

\* the natural column order of a core table
Columns == <<"id", "name", "logies_id", "created_at", "updated_at">>
AuditFields == {"created_at", "updated_at"}
TLoad == "t_load"        \* timestamps of rows loaded before the run
TImport == "t_import"    \* timestamps of rows of a fresh TTL import
TNow == "t_now"          \* CURRENT_TIMESTAMP default of a row inserted by the run

Row(id, name, lid, ts) ==
    [id |-> id, name |-> name, logies_id |-> lid, created_at |-> ts, updated_at |-> ts]

\* every table the update system names
Tables == {"identifiers", "geometries", "contact_points", "addresses", "logies",
           "tourist_attractions"}
DependentTables == {"addresses", "contact_points", "geometries"}
EmptyTable == [i \in {} |-> NULL]
EmptyDb == [t \in Tables |-> EmptyTable]

\* dict.get(key) -> None when the key is missing
DictGet(d, f) == IF f \in DOMAIN d THEN d[f] ELSE NULL
KeysOf(d) == SelectSeq(Columns, LAMBDA f : f \in DOMAIN d)
DictWithout(d, ks) == [f \in (DOMAIN d) \ ks |-> d[f]]

RECURSIVE SumSeq(_)
SumSeq(s) == IF s = <<>> THEN 0 ELSE Head(s) + SumSeq(Tail(s))

\* ----------------------------------------------------------- EntityChange
EntityChange_without_new_values(id, type, op, old, new, cf) ==
    [entity_id |-> id, entity_type |-> type, operation |-> op,
     old_values |-> old, new_values |-> None, changed_fields |-> cf]
EntityChange(id, type, op, old, new, cf) ==
    [entity_id |-> id, entity_type |-> type, operation |-> op,
     old_values |-> old, new_values |-> new, changed_fields |-> cf]

Operations == <<"INSERT", "UPDATE", "DELETE">>
ZeroSummary == [o \in {"INSERT", "UPDATE", "DELETE"} |-> 0]

\* ------------------------------------------------------------- the differ
CORE_TABLES == <<"logies", "addresses", "contact_points", "geometries", "identifiers">>

SkippedByDiffer_none == {}
\* _compare_table, lines 219-220: the timestamp fields are not compared
SkippedByDiffer == {"created_at", "updated_at"}

changed_fields_of_all(master_row, comparison_row) ==
    SelectSeq(KeysOf(master_row), LAMBDA f : f \notin SkippedByDiffer)
\* _compare_table, lines 217-226: the fields of a common row whose values differ
changed_fields_of(master_row, comparison_row) ==
    SelectSeq(KeysOf(master_row),
              LAMBDA f : f \notin SkippedByDiffer
                         /\ DictGet(master_row, f) # DictGet(comparison_row, f))

compare_table(master, comparison, table_name) ==
    LET master_ids == DOMAIN master
        comparison_ids == DOMAIN comparison
        deleted == IdsInOrder(master_ids \ comparison_ids)
        inserted == IdsInOrder(comparison_ids \ master_ids)
        common == IdsInOrder(master_ids \cap comparison_ids)
        updated == SelectSeq(common,
                     LAMBDA i : changed_fields_of(master[i], comparison[i]) # <<>>)
    IN  [k \in 1..Len(deleted) |->
             EntityChange(deleted[k], table_name, "DELETE",
                          Some(master[deleted[k]]), None, None)]
        \o
        [k \in 1..Len(inserted) |->
             EntityChange(inserted[k], table_name, "INSERT",
                          None, Some(comparison[inserted[k]]), None)]
        \o
        [k \in 1..Len(updated) |->
             EntityChange(updated[k], table_name, "UPDATE",
                          Some(master[updated[k]]), Some(comparison[updated[k]]),
                          Some(changed_fields_of(master[updated[k]],
                                                 comparison[updated[k]])))]

CountOp(changes, op) == Len(SelectSeq(changes, LAMBDA c : c.operation = op))

table_summary_of_inserts(changes) ==
    [o \in {"INSERT", "UPDATE", "DELETE"} |->
        IF o = "INSERT" THEN CountOp(changes, o) ELSE 0]
\* compare_databases, lines 140-146: the counts of a table's changes by operation
table_summary_of(changes) ==
    [o \in {"INSERT", "UPDATE", "DELETE"} |-> CountOp(changes, o)]

compare_databases(master_db, comparison_db) ==
    LET names == {CORE_TABLES[k] : k \in 1..Len(CORE_TABLES)}
        cbt == [t \in names |-> compare_table(master_db[t], comparison_db[t], t)]
    IN  [changes_by_table |-> cbt,
         summary |-> [t \in names |-> table_summary_of(cbt[t])],
         total_changes |->
             SumSeq([k \in 1..Len(CORE_TABLES) |-> Len(cbt[CORE_TABLES[k]])])]

\* ---------------------------------------------- the production connection
(* A psycopg2 connection with autocommit = False: statements run in one    *)
(* transaction over the working copy `work`; `pending` are the changelog    *)
(* rows the audit triggers wrote inside it.  A statement that fails puts    *)
(* the transaction in the aborted state: every later statement fails and    *)
(* COMMIT then ends the transaction as a ROLLBACK.                          *)
Connection(db) == [work |-> db, aborted |-> FALSE, pending |-> <<>>]

\* the audit trigger of a core table: one changelog row per row mutated, tagged
\* with the run id set in the session that performs the mutation
audit_trigger(conn, table_name, entity_id, op, session_run) ==
    [conn EXCEPT !.pending = Append(@, [table |-> table_name, entity_id |-> entity_id,
                                        operation_type |-> op, run_id |-> session_run])]

\* the row an INSERT of `values` creates: columns left out take their default
InsertedRow(values) ==
    [f \in {Columns[k] : k \in 1..Len(Columns)} |->
        IF f \in DOMAIN values THEN values[f]
        ELSE IF f \in AuditFields THEN TNow ELSE NULL]

Outcome(conn, raised, sql) == [conn |-> conn, raised |-> raised, sql |-> sql]

\* cursor.execute(INSERT ...): primary key id
sql_insert(conn, table_name, values, session_run) ==
    IF conn.aborted THEN Outcome(conn, TRUE, "in_failed_transaction")
    ELSE IF DictGet(values, "id") \in DOMAIN conn.work[table_name]
    THEN Outcome([conn EXCEPT !.aborted = TRUE], TRUE, "unique_violation")
    ELSE Outcome(
           audit_trigger(
             [conn EXCEPT !.work[table_name] =
                 [i \in (DOMAIN @) \cup {DictGet(values, "id")} |->
                     IF i = DictGet(values, "id") THEN InsertedRow(values) ELSE @[i]]],
             table_name, DictGet(values, "id"), "INSERT", session_run),
           FALSE, "executed")

\* cursor.execute(UPDATE ... SET fields WHERE id = entity_id)
sql_update(conn, table_name, entity_id, fields, values, session_run) ==
    IF conn.aborted THEN Outcome(conn, TRUE, "in_failed_transaction")
    ELSE IF entity_id \notin DOMAIN conn.work[table_name]
    THEN Outcome(conn, FALSE, "zero_rows")
    ELSE Outcome(
           audit_trigger(
             [conn EXCEPT !.work[table_name][entity_id] =
                 [f \in DOMAIN @ |->
                     IF \E k \in 1..Len(fields) : fields[k] = f THEN values[f] ELSE @[f]]],
             table_name, entity_id, "UPDATE", session_run),
           FALSE, "executed")

\* cursor.execute(DELETE FROM table WHERE id = entity_id)
sql_delete(conn, table_name, entity_id, session_run) ==
    IF conn.aborted THEN Outcome(conn, TRUE, "in_failed_transaction")
    ELSE IF entity_id \notin DOMAIN conn.work[table_name]
    THEN Outcome(conn, FALSE, "zero_rows")
    ELSE Outcome(
           audit_trigger(
             [conn EXCEPT !.work[table_name] = [i \in (DOMAIN @) \ {entity_id} |-> @[i]]],
             table_name, entity_id, "DELETE", session_run),
           FALSE, "executed")

\* ---------------------------------------------------- the update processor
InsertDropped == {"created_at", "updated_at"}

execute_insert(conn, table_name, change, dry_run, session_run) ==
    IF ~IsSome(change.new_values) \/ DOMAIN Val(change.new_values) = {}
    THEN Outcome(conn, TRUE, "value_error")
    ELSE LET values == DictWithout(Val(change.new_values), InsertDropped)
         IN  IF dry_run THEN Outcome(conn, FALSE, "dry_run")
             ELSE sql_insert(conn, table_name, values, session_run)

UpdateSkipped_none == {}

UpdateSkipped == {"created_at", "updated_at", "id"}

execute_update(conn, table_name, change, dry_run, session_run) ==
    IF ~IsSome(change.new_values) \/ DOMAIN Val(change.new_values) = {}
       \/ ~IsSome(change.changed_fields) \/ Val(change.changed_fields) = <<>>
    THEN Outcome(conn, TRUE, "value_error")
    ELSE LET update_fields ==
                 SelectSeq(Val(change.changed_fields),
                           LAMBDA f : f \notin UpdateSkipped
                                      /\ f \in DOMAIN Val(change.new_values))
         IN  IF update_fields = <<>> THEN Outcome(conn, FALSE, "no_updatable_fields")
             ELSE IF dry_run THEN Outcome(conn, FALSE, "dry_run")
             ELSE sql_update(conn, table_name, change.entity_id, update_fields,
                             Val(change.new_values), session_run)

execute_delete(conn, table_name, change, dry_run, session_run) ==
    IF dry_run THEN Outcome(conn, FALSE, "dry_run")
    ELSE sql_delete(conn, table_name, change.entity_id, session_run)

(* The state threaded through one apply_changes call: the connection, the   *)
(* number of batches started, the call log (one entry per _execute_* call), *)
(* whether an exception has escaped _apply_operation_batch, the successes   *)
(* of the current operation type (n), the summary of the current table and  *)
(* the UpdateResult so far (res).                                           *)
ApplyState(conn, session_run, fail_at, res) ==
    [conn |-> conn, session_run |-> session_run, fail_at |-> fail_at,
     batches |-> 0, log |-> <<>>, escaped |-> FALSE, n |-> 0,
     summary |-> ZeroSummary, res |-> res]

\* e is evaluated once and handed to F
Let(e, F(_)) == CHOOSE r \in {F(x) : x \in {e}} : TRUE

RefOf(change) ==
    IF IsSome(change.new_values) THEN DictGet(Val(change.new_values), "logies_id") ELSE NULL

\* one iteration of the for loop of _apply_operation_batch: the _execute_* call,
\* successful_count += 1 unless it raised
apply_row(st, table_name, operation_type, change, dry_run) ==
    LET o == CASE operation_type = "INSERT" ->
                    execute_insert(st.conn, table_name, change, dry_run, st.session_run)
               [] operation_type = "UPDATE" ->
                    execute_update(st.conn, table_name, change, dry_run, st.session_run)
               [] OTHER ->
                    execute_delete(st.conn, table_name, change, dry_run, st.session_run)
    IN  [st EXCEPT !.conn = o.conn,
                   !.n = @ + (IF o.raised THEN 0 ELSE 1),
                   !.log = Append(@, [table |-> table_name,
                                      operation |-> operation_type,
                                      entity_id |-> change.entity_id,
                                      ref |-> RefOf(change),
                                      raised |-> o.raised,
                                      sql |-> o.sql])]

RECURSIVE apply_rows(_, _, _, _, _)
apply_rows(st, table_name, operation_type, batch, dry_run) ==
    IF batch = <<>> THEN st
    ELSE Let(apply_row(st, table_name, operation_type, Head(batch), dry_run),
             LAMBDA s1 : apply_rows(s1, table_name, operation_type, Tail(batch), dry_run))

\* _apply_operation_batch: an exception outside the per-row try escapes (st.fail_at
\* names the batch in which it is raised)
apply_operation_batch(st, table_name, operation_type, batch, dry_run) ==
    IF batch = <<>> THEN st
    ELSE IF st.batches + 1 = st.fail_at
    THEN [st EXCEPT !.batches = @ + 1, !.escaped = TRUE]
    ELSE Let([st EXCEPT !.batches = @ + 1],
             LAMBDA s0 : apply_rows(s0, table_name, operation_type, batch, dry_run))

Min(a, b) == IF a < b THEN a ELSE b

apply_batches_first_only(st, table_name, operation_type, operation_changes, dry_run, batch_size) ==
    IF operation_changes = <<>> \/ st.escaped THEN st
    ELSE apply_operation_batch(st, table_name, operation_type,
             SubSeq(operation_changes, 1, Min(batch_size, Len(operation_changes))),
             dry_run)

\* for i in range(0, len(operation_changes), batch_size)
RECURSIVE apply_batches(_, _, _, _, _, _)
apply_batches(st, table_name, operation_type, operation_changes, dry_run, batch_size) ==
    IF operation_changes = <<>> \/ st.escaped THEN st
    ELSE Let(apply_operation_batch(st, table_name, operation_type,
                 SubSeq(operation_changes, 1, Min(batch_size, Len(operation_changes))),
                 dry_run),
             LAMBDA s1 : apply_batches(s1, table_name, operation_type,
                             SubSeq(operation_changes,
                                    Min(batch_size, Len(operation_changes)) + 1,
                                    Len(operation_changes)),
                             dry_run, batch_size))

OperationOrder_inserts_first == <<"INSERT", "UPDATE", "DELETE">>
\* _apply_table_changes, line 209: for operation_type in ['DELETE', 'UPDATE', 'INSERT']
OperationOrder == <<"DELETE", "UPDATE", "INSERT">>

\* the loop of _apply_table_changes over the operation types:
\* summary[operation_type] += batch_result
RECURSIVE apply_operations(_, _, _, _, _, _)
apply_operations(st, table_name, table_changes, dry_run, batch_size, order) ==
    IF order = <<>> \/ st.escaped THEN st
    ELSE Let(apply_batches([st EXCEPT !.n = 0], table_name, Head(order),
                           SelectSeq(table_changes, LAMBDA c : c.operation = Head(order)),
                           dry_run, batch_size),
             LAMBDA s1 : Let([s1 EXCEPT !.summary[Head(order)] = @ + s1.n],
                             LAMBDA s2 : apply_operations(s2, table_name, table_changes,
                                             dry_run, batch_size, Tail(order))))

apply_table_changes(st, table_name, table_changes, dry_run, batch_size) ==
    Let([st EXCEPT !.summary = ZeroSummary],
        LAMBDA s0 : apply_operations(s0, table_name, table_changes, dry_run, batch_size,
                                     OperationOrder))

table_order_without_addresses == <<"identifiers", "geometries", "contact_points", "logies">>
\* line 128
table_order == <<"identifiers", "geometries", "contact_points", "addresses", "logies">>

\* lines 144-146 of apply_changes: record the table's summary in the UpdateResult
record_table(res, table_name, table_changes, table_summary) ==
    [res EXCEPT
        !.summary = [t \in (DOMAIN @) \cup {table_name} |->
                        IF t = table_name THEN table_summary ELSE @[t]],
        !.records_processed = @ + Len(table_changes),
        !.records_applied = @ + table_summary["INSERT"] + table_summary["UPDATE"]
                              + table_summary["DELETE"]]

\* the for loop of apply_changes over table_order
RECURSIVE apply_tables(_, _, _, _, _)
apply_tables(st, order, changes_by_table, dry_run, batch_size) ==
    IF order = <<>> \/ st.escaped THEN st
    ELSE IF Head(order) \notin DOMAIN changes_by_table
            \/ changes_by_table[Head(order)] = <<>>
    THEN apply_tables(st, Tail(order), changes_by_table, dry_run, batch_size)
    ELSE Let(apply_table_changes(st, Head(order), changes_by_table[Head(order)],
                                 dry_run, batch_size),
             LAMBDA s1 :
                IF s1.escaped THEN s1
                ELSE Let([s1 EXCEPT !.res = record_table(@, Head(order),
                                                changes_by_table[Head(order)],
                                                s1.summary)],
                         LAMBDA s2 : apply_tables(s2, Tail(order), changes_by_table,
                                                  dry_run, batch_size)))

\* the number of batches a call without an escaping exception starts
RECURSIVE CeilDiv(_, _)
CeilDiv(n, d) == IF n <= 0 THEN 0 ELSE 1 + CeilDiv(n - d, d)
TotalBatches(changes_by_table, batch_size) ==
    SumSeq([k \in 1..Len(table_order) |->
        IF table_order[k] \in DOMAIN changes_by_table
        THEN SumSeq([j \in 1..3 |->
                 CeilDiv(CountOp(changes_by_table[table_order[k]], Operations[j]),
                         batch_size)])
        ELSE 0])

\* ------------------------------------------------- the pre-flight validator
\* Python truthiness of an Optional dict or list: None and the empty value are false
Truthy(o) == IsSome(o) /\ Val(o) # <<>> /\ DOMAIN Val(o) # {}

LargeOperationThreshold == 1000

Message(kind, table_name, entity_id) ==
    [kind |-> kind, table |-> table_name, entity_id |-> entity_id]

\* the messages about the changes of the tables in T that satisfy Cond
Flagged(changes_by_table, T, kind, Cond(_)) ==
    UNION {{Message(kind, t, changes_by_table[t][k].entity_id) :
               k \in {j \in 1..Len(changes_by_table[t]) : Cond(changes_by_table[t][j])}}
           : t \in T \cap DOMAIN changes_by_table}

\* _check_referential_integrity: INSERTs into a dependent table that reference a
\* logies row deleted by the same change-set
check_referential_integrity(changes_by_table) ==
    LET logies_deletes ==
            IF "logies" \in DOMAIN changes_by_table
            THEN {changes_by_table["logies"][k].entity_id :
                    k \in {j \in 1..Len(changes_by_table["logies"]) :
                             changes_by_table["logies"][j].operation = "DELETE"}}
            ELSE {}
    IN  Flagged(changes_by_table, DependentTables, "deleted_logies_id",
                LAMBDA c : /\ c.operation = "INSERT"
                           /\ Truthy(c.new_values)
                           /\ RefOf(c) \in logies_deletes)

\* validate_changes_before_apply: the errors and warnings as sets of messages
validate_changes_before_apply(changes_by_table) ==
    LET errors ==
            Flagged(changes_by_table, DOMAIN changes_by_table, "missing_new_values",
                    LAMBDA c : c.operation = "INSERT" /\ ~Truthy(c.new_values))
        warnings ==
            Flagged(changes_by_table, DOMAIN changes_by_table, "no_changed_fields",
                    LAMBDA c : c.operation = "UPDATE" /\ ~Truthy(c.changed_fields))
            \cup
            Flagged(changes_by_table, DOMAIN changes_by_table, "missing_old_values",
                    LAMBDA c : c.operation = "DELETE" /\ ~Truthy(c.old_values))
            \cup
            {Message("large_operation", t, NULL) :
                t \in {x \in DOMAIN changes_by_table :
                         Len(changes_by_table[x]) > LargeOperationThreshold}}
            \cup check_referential_integrity(changes_by_table)
    IN  [is_valid |-> errors = {}, errors |-> errors, warnings |-> warnings]

\* -------------------------------------------------------- input universes
\* production stores at the start: logies rows loaded earlier, one identifier
InitialStores ==
    {[EmptyDb EXCEPT
        !["logies"] = [i \in S |-> Row(i, OldName, NULL, TLoad)],
        !["identifiers"] = [i \in {IdName[1]} |-> Row(i, OldName, NULL, TLoad)]]
     : S \in SUBSET Ids}

\* contents of a published TTL file once imported into a temporary database
LogiesContents ==
    UNION {[S -> {Row(IdName[1], n, NULL, TImport) : n \in Names}] : S \in SUBSET Ids}
FixId(t) == [i \in DOMAIN t |-> [t[i] EXCEPT !.id = i]]
AddressContents ==
    {EmptyTable} \cup {[i \in {IdName[1]} |-> Row(i, OldName, l, TImport)] : l \in Ids}
Snapshots ==
    {[EmptyDb EXCEPT
        !["logies"] = FixId(lg),
        !["addresses"] = ad,
        !["identifiers"] = [i \in {IdName[1]} |-> Row(i, OldName, NULL, TImport)]]
     : lg \in LogiesContents, ad \in AddressContents}

\* imported TTL files that also hold a tourist attraction
AttractionSnapshots ==
    {[s EXCEPT !["tourist_attractions"] =
                   [i \in {IdName[1]} |-> Row(i, NewName, NULL, TImport)]]
     : s \in Snapshots}

RECURSIVE SeqsUpTo(_, _)
SeqsUpTo(S, n) ==
    IF n = 0 THEN {<<>>}
    ELSE LET shorter == SeqsUpTo(S, n - 1)
         IN  shorter \cup {Append(q, x) : q \in shorter, x \in S}

\* changed_fields of hand-made UPDATE changes whose new_values differ from the
\* row in every column: system fields named, one field named, only a system
\* field named, no field named
UpdateFieldLists ==
    {<<"id", "name", "created_at", "updated_at">>, <<"logies_id">>, <<"updated_at">>, <<>>}

\* hand-made changes of one table, as the tests build them
RowChanges(t) ==
    {EntityChange(i, t, "INSERT", None, Some(Row(i, NewName, NULL, TImport)), None)
        : i \in Ids}
    \cup {EntityChange(IdName[1], t, "INSERT", None, None, None)}
    \cup {EntityChange(i, t, "UPDATE", Some(Row(i, OldName, NULL, TLoad)),
                       Some(Row(i, NewName, NULL, TImport)), Some(<<"name">>))
        : i \in Ids}
    \cup {EntityChange(i, t, "DELETE", Some(Row(i, OldName, NULL, TLoad)), None, None)
        : i \in Ids}
    \cup {EntityChange(IdName[1], t, "UPDATE", Some(Row(IdName[1], OldName, NULL, TLoad)),
                       Some(Row(IdName[MaxId], NewName, IdName[1], TImport)), Some(cf))
        : cf \in UpdateFieldLists}

\* change-sets that touch logies only, with up to MaxChanges changes
RowChangeSets ==
    {[t \in {"logies"} |-> q] : q \in SeqsUpTo(RowChanges("logies"), MaxChanges)}

\* change-sets with one INSERT in each table of a set of tables; the rows of the
\* dependent tables reference the inserted logies row
TableChangeSets ==
    {[t \in T |->
        <<EntityChange(IdName[1], t, "INSERT", None,
                       Some(Row(IdName[1], NewName,
                                IF t \in DependentTables THEN IdName[1] ELSE NULL,
                                TImport)),
                       None)>>]
     : T \in SUBSET Tables}

DirectChangeSets == RowChangeSets \cup TableChangeSets
BatchSizes == {1, DefaultBatchSize}

\* ------------------------------------------------------------------ state
VARIABLES
    store,           \* committed content of the production core tables
    conn,            \* the processor's connection (its open transaction)
    update_runs,     \* Change Ledger: the update_runs table, in creation order
    changelog,       \* Change Ledger: committed <table>_changelog rows
    session_run,     \* run id set in each database session (set_current_run_id)
    current_run_id,  \* ChangeTracker.current_run_id
    call,            \* the apply_changes call in progress or last returned
    apc,             \* position inside apply_changes
    exec_log,        \* the _execute_* calls of the current apply_changes, in order
    escaped,         \* an exception escaped the table loop
    update_result,   \* the UpdateResult being built / returned
    apply_calls,     \* every apply_changes call so far: arguments and success
    prev,            \* what the caller holds of the previous apply_changes call
    pc,              \* position of the caller
    workflow,        \* "none", "direct", "full" or "validation"
    config,          \* OrchestrationConfig
    result,          \* OrchestrationResult
    source,          \* content of the TTL file obtained for this invocation
    changes,         \* ChangeDetectionResult of the change detection phase
    files,           \* downloaded TTL files that exist on disk
    temp_dbs,        \* temporary comparison databases that exist
    invocations,     \* overlapping invocations of the workflow by its triggers
    download,        \* the download_latest_ttl call in progress or last ended
    scheduled_jobs,  \* UpdateScheduler.scheduled_jobs: job name -> ScheduleConfig
    failure_counts,  \* UpdateScheduler.failure_counts: job name -> failures
    job_history      \* UpdateScheduler.job_history: ScheduledJobResult of each run

scheduler_vars == <<scheduled_jobs, failure_counts, job_history>>

vars == <<store, conn, update_runs, changelog, session_run, current_run_id, call, apc,
          exec_log, escaped, update_result, apply_calls, prev, pc, workflow, config,
          result, source, changes, files, temp_dbs, invocations, download, scheduler_vars>>

ledger_vars == <<update_runs, changelog, session_run, current_run_id>>
apply_vars == <<store, conn, update_runs, changelog, session_run, current_run_id, call,
                apc, exec_log, escaped, update_result, apply_calls, prev>>
workflow_vars == <<workflow, config, result, source, changes, files, temp_dbs, invocations, download, scheduler_vars>>

RunIds == <<"run1", "run2", "run3", "run4", "run5", "run6", "run7", "run8">>
NoCall == [changes_by_table |-> <<>>, dry_run |-> FALSE, batch_size |-> 0,
           run_id |-> NULL, pre |-> EmptyDb]
NoResult == [run_id |-> NULL, success |-> FALSE, records_processed |-> 0,
             records_applied |-> 0, records_failed |-> 0, error_messages |-> <<>>,
             summary |-> <<>>]
NoConfig == [dry_run_first |-> TRUE, force_update |-> FALSE,
             batch_size |-> DefaultBatchSize, temp_cleanup |-> TRUE]
NoOrchestration == [success |-> FALSE, completed_at |-> FALSE, total_changes |-> 0,
                    error_messages |-> <<>>, warning_messages |-> <<>>,
                    phase_results |-> <<>>]
NoChanges == [changes_by_table |-> <<>>, summary |-> <<>>, total_changes |-> 0]
NoPrevious == [result |-> NoResult, log |-> <<>>]
NoDownload == [status |-> "none", max_retries |-> 0, attempts |-> <<>>]
NoInvocation == [kind |-> NULL, force_update |-> FALSE, pc |-> "idle", run_id |-> NULL]

Init ==
    /\ store \in InitialStores
    /\ conn = Connection(store)
    /\ update_runs = <<>>
    /\ changelog = <<>>
    /\ session_run = [c \in {"processor", "tracker"} |-> NULL]
    /\ current_run_id = NULL
    /\ call = NoCall
    /\ apc = "none"
    /\ exec_log = <<>>
    /\ escaped = FALSE
    /\ update_result = NoResult
    /\ apply_calls = <<>>
    /\ prev = NoPrevious
    /\ pc = "idle"
    /\ workflow = "none"
    /\ config = NoConfig
    /\ result = NoOrchestration
    /\ source = EmptyDb
    /\ changes = NoChanges
    /\ files = {}
    /\ temp_dbs = {}
    /\ invocations = [i \in 1..MaxInvocations |-> NoInvocation]
    /\ download = NoDownload
    /\ scheduled_jobs = <<>>
    /\ failure_counts = <<>>
    /\ job_history = <<>>

\* ------------------------------------------------------- the change ledger
\* ChangeTracker.create_update_run: INSERT a RUNNING row and commit
create_update_run(runs, run_id) ==
    Append(runs, [run_id |-> run_id, status |-> "RUNNING", completed_at |-> FALSE,
                  records_added |-> 0, records_updated |-> 0, records_deleted |-> 0,
                  error_message |-> NULL])

\* ChangeTracker.complete_update_run: UPDATE ... WHERE run_id = run_id and commit
complete_update_run(runs, run_id, status, added, updated, deleted, error_message) ==
    [k \in 1..Len(runs) |->
        IF runs[k].run_id = run_id
        THEN [runs[k] EXCEPT !.status = status, !.completed_at = TRUE,
                             !.records_added = added, !.records_updated = updated,
                             !.records_deleted = deleted,
                             !.error_message = error_message]
        ELSE runs[k]]

\* ChangeTracker.set_run_context: SELECT set_current_run_id on the tracker's session
set_run_context(sessions, run_id) == [sessions EXCEPT !["tracker"] = run_id]
clear_run_context_noop(sessions) == sessions
\* ChangeTracker.clear_run_context
clear_run_context(sessions) == [sessions EXCEPT !["tracker"] = NULL]

RunOf(run_id) == CHOOSE r \in {update_runs[k] : k \in 1..Len(update_runs)} : r.run_id = run_id

\* ------------------------------------------- UpdateProcessor.apply_changes
\* dict.get(key, 0) on UpdateResult.summary, whose keys are table names
SummaryGet(summary, key) == IF key \in DOMAIN summary THEN summary[key] ELSE 0

FinalStatus_always_completed(dry_run) == "COMPLETED"
\* line 162: 'COMPLETED' if not dry_run else 'DRY_RUN'
FinalStatus(dry_run) == IF dry_run THEN "DRY_RUN" ELSE "COMPLETED"

\* connection.commit(): an aborted transaction ends as a rollback
commit(db, c) == IF c.aborted THEN db ELSE c.work
committed_log(log, c) == IF c.aborted THEN log ELSE log \o c.pending
rollback_keeps_work(db, c) == c.work
\* connection.rollback(): the committed content stays
rollback(db, c) == db

\* lines 105-122: create the run, set the run context, build the empty result
BeginApply(cs, dry_run, batch_size) ==
    LET run_id == RunIds[Len(update_runs) + 1]
    IN  /\ update_runs' = create_update_run(update_runs, run_id)
        /\ session_run' = set_run_context(session_run, run_id)
        /\ current_run_id' = run_id
        /\ update_result' = [NoResult EXCEPT !.run_id = run_id]
        /\ call' = [changes_by_table |-> cs, dry_run |-> dry_run,
                    batch_size |-> batch_size, run_id |-> run_id, pre |-> store]
        /\ conn' = Connection(store)
        /\ exec_log' = <<>>
        /\ escaped' = FALSE
        /\ apply_calls' = Append(apply_calls, [dry_run |-> dry_run,
                                               changes_by_table |-> cs,
                                               returned |-> FALSE, success |-> FALSE])
        /\ prev' = [result |-> update_result, log |-> exec_log]
        /\ apc' = "started"
        /\ UNCHANGED <<store, changelog>>

\* a caller other than the orchestrator calls apply_changes
CallApplyChanges ==
    /\ pc = "idle"
    /\ \E cs \in DirectChangeSets, dry_run \in BOOLEAN, batch_size \in BatchSizes :
          BeginApply(cs, dry_run, batch_size)
    /\ pc' = "direct"
    /\ workflow' = "direct"
    /\ UNCHANGED <<config, result, source, changes, files, temp_dbs, invocations, download, scheduler_vars>>

\* the same caller, after a dry run that succeeded, applies the same change-set
\* for real
CallApplyAgain ==
    /\ pc = "direct"
    /\ apc = "returned"
    /\ call.dry_run
    /\ update_result.success
    /\ BeginApply(call.changes_by_table, FALSE, call.batch_size)
    /\ pc' = "direct_real"
    /\ UNCHANGED workflow_vars

\* lines 127-146: the loop over table_order; an injected error may escape from
\* any one batch
ProcessTables ==
    /\ apc = "started"
    /\ \E fail_at \in 0..TotalBatches(call.changes_by_table, call.batch_size) :
          \E r \in {apply_tables(ApplyState(conn, session_run["processor"], fail_at,
                                            update_result),
                                 table_order, call.changes_by_table, call.dry_run,
                                 call.batch_size)} :
              /\ conn' = r.conn
              /\ exec_log' = r.log
              /\ escaped' = r.escaped
              /\ update_result' = r.res
    /\ apc' = "processed"
    /\ UNCHANGED <<store, update_runs, changelog, session_run, current_run_id, call,
                   apply_calls, prev, pc>>
    /\ UNCHANGED workflow_vars

MarkReturned(calls, success) ==
    [calls EXCEPT ![Len(calls)] = [@ EXCEPT !.returned = TRUE, !.success = success]]

\* lines 148-168 and 182-185: commit or roll back, complete the run, clear the context
CompleteApply ==
    /\ apc = "processed"
    /\ ~escaped
    /\ store' = IF call.dry_run THEN rollback(store, conn) ELSE commit(store, conn)
    /\ changelog' = IF call.dry_run THEN changelog ELSE committed_log(changelog, conn)
    /\ conn' = Connection(store')
    /\ update_result' = [update_result EXCEPT !.success = TRUE]
    /\ update_runs' = complete_update_run(update_runs, call.run_id,
                          FinalStatus(call.dry_run),
                          SummaryGet(update_result.summary, "INSERT"),
                          SummaryGet(update_result.summary, "UPDATE"),
                          SummaryGet(update_result.summary, "DELETE"), NULL)
    /\ session_run' = clear_run_context(session_run)
    /\ current_run_id' = NULL
    /\ apply_calls' = MarkReturned(apply_calls, TRUE)
    /\ apc' = "returned"
    /\ UNCHANGED <<call, exec_log, escaped, prev, pc>>
    /\ UNCHANGED workflow_vars

InjectedError == "injected error"

record_error_nowhere(res, error_msg) == res
\* lines 173-174: update_result.error_messages.append(error_msg)
record_error(res, error_msg) == [res EXCEPT !.error_messages = Append(@, error_msg)]

\* lines 170-185: roll back, record the error, mark the run FAILED, clear the context
FailApply ==
    /\ apc = "processed"
    /\ escaped
    /\ store' = rollback(store, conn)
    /\ conn' = Connection(store')
    /\ update_result' = record_error(update_result, InjectedError)
    /\ update_runs' = complete_update_run(update_runs, call.run_id, "FAILED", 0, 0, 0,
                                          InjectedError)
    /\ session_run' = clear_run_context(session_run)
    /\ current_run_id' = NULL
    /\ apply_calls' = MarkReturned(apply_calls, FALSE)
    /\ apc' = "returned"
    /\ UNCHANGED <<changelog, call, exec_log, escaped, prev, pc>>
    /\ UNCHANGED workflow_vars

\* -------------------------------------------------------- the orchestrator
Configs == [dry_run_first : BOOLEAN, force_update : BOOLEAN, batch_size : BatchSizes,
            temp_cleanup : {TRUE}]

DownloadPath == "downloads/toeristische-attracties.ttl"
DownloadHash == "sha256-of-download"
DownloadSize == "size-of-download"
ChangedHash == "sha256-of-changed-download"
ChangedSize == "size-of-changed-download"
\* the download the previous invocation processed
PreviousDownload == [hash |-> DownloadHash, size |-> DownloadSize]
\* what download_latest_ttl can fetch: the same file again, or a changed file
Downloads == {PreviousDownload, [hash |-> ChangedHash, size |-> ChangedSize]}

\* DataSourceManager.compare_file_metadata: old_hash/old_size against the current file
compare_file_metadata(current_hash, current_size, old_hash, old_size) ==
    (old_hash # NULL /\ old_hash # current_hash)
    \/ (old_size # NULL /\ old_size # current_size)

PhaseSet(res, phase, value) ==
    [res EXCEPT !.phase_results =
        [p \in (DOMAIN @) \cup {phase} |-> IF p = phase THEN value ELSE @[p]]]

\* _cleanup_temp_resources: unlink the downloaded file of the data source phase
cleanup_temp_resources(res, fs) ==
    IF "data_source" \in DOMAIN res.phase_results
       /\ res.phase_results["data_source"].file_path # NULL
    THEN fs \ {res.phase_results["data_source"].file_path}
    ELSE fs

finalize_only_on_success(res) == IF res.success THEN [res EXCEPT !.completed_at = TRUE] ELSE res
\* _finalize_result
finalize_result(res) == [res EXCEPT !.completed_at = TRUE]

\* the except branch of a workflow: record the error, success = False
workflow_error(res, msg) ==
    [res EXCEPT !.error_messages = Append(@, msg), !.success = FALSE]

\* the finally block of a workflow, after which it returns
Return(res, fs) ==
    /\ result' = finalize_result(res)
    /\ files' = IF config.temp_cleanup THEN cleanup_temp_resources(res, fs) ELSE fs
    /\ pc' = "done"

\* execute_full_update_workflow, lines 122-130
StartFullWorkflow ==
    /\ pc = "idle"
    /\ \E c \in Configs : config' = c
    /\ workflow' = "full"
    /\ result' = NoOrchestration
    /\ pc' = "data_source"
    /\ UNCHANGED <<source, changes, files, temp_dbs, invocations, download, scheduler_vars>>
    /\ UNCHANGED apply_vars

\* execute_validation_only, lines 366-386: with a TTL file given the data source
\* phase is skipped
StartValidationOnly ==
    /\ pc = "idle"
    /\ \E c \in Configs : config' = c
    /\ workflow' = "validation"
    /\ result' = NoOrchestration
    /\ \/ /\ pc' = "data_source"
          /\ source' = source
       \/ /\ pc' = "change_detection"
          /\ source' \in Snapshots
    /\ UNCHANGED <<changes, files, temp_dbs, invocations, download, scheduler_vars>>
    /\ UNCHANGED apply_vars

update_always_needed(has_changes, force_update) == TRUE
\* lines 141-145: the update goes on when the source changed or force_update is set
update_needed(has_changes, force_update) == has_changes \/ force_update

\* _execute_data_source_phase and the code of the workflow that follows it
DataSourcePhase ==
    /\ pc = "data_source"
    /\ \/ \* the download failed after its retries
          /\ Return(workflow_error(
                        PhaseSet(result, "data_source",
                                 [success |-> FALSE, file_path |-> NULL,
                                  has_changes |-> FALSE, file_hash |-> NULL,
                                  file_size |-> NULL]),
                        "Data source phase failed"),
                    files)
          /\ UNCHANGED source
       \/ \* the file was downloaded, then validate_ttl_file raised: the except
          \* branch returns a dict without file_path
          /\ Return(workflow_error(
                        PhaseSet(result, "data_source",
                                 [success |-> FALSE, file_path |-> NULL,
                                  has_changes |-> FALSE, file_hash |-> NULL,
                                  file_size |-> NULL]),
                        "Data source phase failed"),
                    files \cup {DownloadPath})
          /\ UNCHANGED source
       \/ \* a file was downloaded
          /\ source' \in Snapshots
          /\ \E d \in Downloads :
             LET \* line 207: compare_file_metadata(file_hash, file_size)
                 has_changes == compare_file_metadata(d.hash, d.size, d.hash, d.size)
                 res == PhaseSet(result, "data_source",
                                 [success |-> TRUE, file_path |-> DownloadPath,
                                  has_changes |-> has_changes, file_hash |-> d.hash,
                                  file_size |-> d.size])
             IN  IF workflow = "full" /\ ~update_needed(has_changes, config.force_update)
                 THEN Return([res EXCEPT !.success = TRUE,
                                         !.warning_messages =
                                             Append(@, "No changes detected in source data")],
                             files \cup {DownloadPath})
                 ELSE /\ result' = res
                      /\ files' = files \cup {DownloadPath}
                      /\ pc' = "change_detection"
    /\ UNCHANGED <<workflow, config, changes, temp_dbs, invocations, download, scheduler_vars>>
    /\ UNCHANGED apply_vars

\* the name of the temporary comparison database
TempDb == "tourism_temp_compare"
\* the steps of create_temp_database_from_ttl that can raise
FailSteps == {"create", "schema", "import", "missing_file"}

\* _create_database: CREATE DATABASE
create_database(dbs, name) == dbs \cup {name}

drop_database_noop(dbs, name) == dbs
\* _drop_database: DROP DATABASE IF EXISTS
drop_database(dbs, name) == dbs \ {name}

\* create_temp_database_from_ttl, fail_step being the step that raises (NULL:
\* none): the except branch drops the database and raises RuntimeError
create_temp_database_from_ttl(dbs, fail_step) ==
    LET created == IF fail_step = "create" THEN dbs ELSE create_database(dbs, TempDb)
    IN  IF fail_step = NULL
        THEN [raised |-> FALSE, dbs |-> created, temp_db_name |-> TempDb]
        ELSE [raised |-> TRUE, dbs |-> drop_database(created, TempDb),
              temp_db_name |-> NULL]

\* cleanup_temp_database, called by ChangeDetector.__exit__
cleanup_temp_database(dbs, temp_db_name) ==
    IF temp_db_name # NULL THEN drop_database(dbs, temp_db_name) ELSE dbs

\* _execute_change_detection_phase and the code of the workflow that follows it
ChangeDetectionPhase ==
    /\ pc = "change_detection"
    /\ \/ \* create_temp_database_from_ttl raised
          \E fail_step \in FailSteps :
              LET r == create_temp_database_from_ttl(temp_dbs, fail_step)
              IN  /\ temp_dbs' = cleanup_temp_database(r.dbs, r.temp_db_name)
                  /\ Return(workflow_error(
                                PhaseSet(result, "change_detection",
                                         [success |-> FALSE, error |-> fail_step]),
                                "Change detection phase failed"),
                            files)
                  /\ UNCHANGED changes
       \/ \* compare_databases raised
          LET r == create_temp_database_from_ttl(temp_dbs, NULL)
          IN  /\ temp_dbs' = cleanup_temp_database(r.dbs, r.temp_db_name)
              /\ Return(workflow_error(
                            PhaseSet(result, "change_detection",
                                     [success |-> FALSE, error |-> "compare"]),
                            "Change detection phase failed"),
                        files)
              /\ UNCHANGED changes
       \/ LET r == create_temp_database_from_ttl(temp_dbs, NULL)
          IN  /\ changes' = compare_databases(store, source)
              /\ temp_dbs' = cleanup_temp_database(r.dbs, r.temp_db_name)
              /\ result' = PhaseSet(result, "change_detection",
                                    [success |-> TRUE, error |-> NULL])
              /\ pc' = "update_processing"
              /\ UNCHANGED files
    /\ UNCHANGED <<workflow, config, source, invocations, download, scheduler_vars>>
    /\ UNCHANGED apply_vars

\* a caller other than the orchestrator calls compare_databases on the configured
\* database and a comparison database, which may be that same database
CallCompareDatabases ==
    /\ pc = "idle"
    /\ \E comparison_db \in Snapshots \cup AttractionSnapshots \cup {store} :
          /\ source' = comparison_db
          /\ changes' = compare_databases(store, comparison_db)
    /\ pc' = "compared"
    /\ UNCHANGED <<workflow, config, result, files, temp_dbs, invocations, download, scheduler_vars>>
    /\ UNCHANGED apply_vars

first_apply_follows_config(wf, cfg) == cfg.dry_run_first
\* the dry_run argument of the first apply_changes call of a workflow:
\* execute_validation_only passes True, the full workflow config.dry_run_first
first_apply_is_dry(wf, cfg) == wf = "validation" \/ cfg.dry_run_first

dry_run_always_passes(dry_result) == TRUE
\* line 274: the real apply is reached only if dry_result.success
dry_run_passed(dry_result) == dry_result.success

\* _execute_update_processing_phase up to its first apply_changes call (full
\* workflow), or the dry run of execute_validation_only
UpdateProcessingPhase ==
    /\ pc = "update_processing"
    /\ \/ \* UpdateProcessor.connect raised
          /\ Return(workflow_error(
                        IF workflow = "full"
                        THEN PhaseSet(result, "update_processing", [success |-> FALSE])
                        ELSE result,
                        "Update processing phase failed"),
                    files)
          /\ UNCHANGED apply_vars
       \/ /\ BeginApply(changes.changes_by_table, first_apply_is_dry(workflow, config),
                        config.batch_size)
          /\ pc' = IF first_apply_is_dry(workflow, config) THEN "dry_run"
                   ELSE "real_apply"
          /\ UNCHANGED <<result, files>>
    /\ UNCHANGED <<workflow, config, source, changes, temp_dbs, invocations, download, scheduler_vars>>

\* the dry run returned
AfterDryRun ==
    /\ pc = "dry_run"
    /\ apc = "returned"
    /\ IF workflow = "validation"
       THEN /\ LET res == [PhaseSet(result, "dry_run",
                                    [success |-> update_result.success])
                           EXCEPT !.total_changes = update_result.records_processed]
               IN  IF update_result.success
                   THEN Return([res EXCEPT !.success = TRUE], files)
                   ELSE Return(workflow_error(res, "Validation failed"), files)
            /\ UNCHANGED apply_vars
       ELSE IF ~dry_run_passed(update_result)
       THEN /\ Return(workflow_error(
                          PhaseSet(result, "update_processing", [success |-> FALSE]),
                          "Update processing phase failed: Dry run failed"),
                      files)
            /\ UNCHANGED apply_vars
       ELSE /\ BeginApply(changes.changes_by_table, FALSE, config.batch_size)
            /\ pc' = "real_apply"
            /\ UNCHANGED <<result, files>>
    /\ UNCHANGED <<workflow, config, source, changes, temp_dbs, invocations, download, scheduler_vars>>

\* the real apply returned: lines 291-300 and 163-192
AfterRealApply ==
    /\ pc = "real_apply"
    /\ apc = "returned"
    /\ LET res == PhaseSet(result, "update_processing",
                           [success |-> update_result.success])
       IN  IF update_result.success
           THEN Return([res EXCEPT !.success = TRUE,
                                   !.total_changes = update_result.records_processed],
                       files)
           ELSE Return(workflow_error(res, "Update processing phase failed"), files)
    /\ UNCHANGED <<workflow, config, source, changes, temp_dbs, invocations, download, scheduler_vars>>
    /\ UNCHANGED apply_vars

Next ==
    \/ CallApplyChanges
    \/ CallApplyAgain
    \/ ProcessTables
    \/ CompleteApply
    \/ FailApply
    \/ StartFullWorkflow
    \/ StartValidationOnly
    \/ DataSourcePhase
    \/ ChangeDetectionPhase
    \/ CallCompareDatabases
    \/ UpdateProcessingPhase
    \/ AfterDryRun
    \/ AfterRealApply

Spec == Init /\ [][Next]_vars

\* ------------------------------------------------ overlapping invocations
(* The triggers of the workflow: POST /api/updates/run of the dashboard      *)
(* starts a thread per request on the dashboard's orchestrator (default       *)
(* configuration), the scheduler runs its jobs one after the other in its own *)
(* thread, and the command line runs the workflow in its own process.  Each   *)
(* invocation goes through the phases of execute_full_update_workflow; none   *)
(* of the triggers takes a lock.                                              *)
TriggerKinds == {"dashboard", "scheduler", "cli"}
Active(i) == invocations[i].pc \notin {"idle", "done"}
Applying(i) == invocations[i].pc \in {"dry_run", "real_apply"}

Trigger(i) ==
    /\ invocations[i].pc = "idle"
    /\ \E kind \in TriggerKinds, force_update \in BOOLEAN :
          \* create_default_config: the dashboard never forces an update
          /\ kind = "dashboard" => ~force_update
          \* schedule.run_pending: one scheduled job at a time
          /\ kind = "scheduler" =>
                ~\E j \in 1..MaxInvocations :
                    invocations[j].kind = "scheduler" /\ Active(j)
          /\ invocations' = [invocations EXCEPT ![i] =
                                [kind |-> kind, force_update |-> force_update,
                                 pc |-> "data_source", run_id |-> NULL]]
    /\ UNCHANGED <<workflow, config, result, source, changes, files, temp_dbs, download, scheduler_vars>>
    /\ UNCHANGED apply_vars
    /\ UNCHANGED pc

\* the data source phase of invocation i and the check that follows it
InvocationDataSource(i) ==
    /\ invocations[i].pc = "data_source"
    /\ \/ invocations' = [invocations EXCEPT ![i].pc = "done"]
       \/ invocations' =
             [invocations EXCEPT ![i].pc =
                 IF update_needed(compare_file_metadata(DownloadHash, DownloadSize,
                                                        DownloadHash, DownloadSize),
                                  invocations[i].force_update)
                 THEN "change_detection" ELSE "done"]
    /\ UNCHANGED <<workflow, config, result, source, changes, files, temp_dbs, download, scheduler_vars>>
    /\ UNCHANGED apply_vars
    /\ UNCHANGED pc

\* the change detection phase of invocation i
InvocationChangeDetection(i) ==
    /\ invocations[i].pc = "change_detection"
    /\ \E next \in {"update_processing", "done"} :
          invocations' = [invocations EXCEPT ![i].pc = next]
    /\ UNCHANGED <<workflow, config, result, source, changes, files, temp_dbs, download, scheduler_vars>>
    /\ UNCHANGED apply_vars
    /\ UNCHANGED pc

\* apply_changes of invocation i begins: create_update_run (lines 105-109)
InvocationBeginApply(i) ==
    /\ invocations[i].pc \in {"update_processing", "dry_run_done"}
    /\ Len(update_runs) < Len(RunIds)
    /\ LET run_id == RunIds[Len(update_runs) + 1]
       IN  /\ update_runs' = create_update_run(update_runs, run_id)
           /\ invocations' =
                 [invocations EXCEPT ![i].run_id = run_id,
                                     ![i].pc = IF invocations[i].pc = "update_processing"
                                               THEN "dry_run" ELSE "real_apply"]
    /\ UNCHANGED <<store, conn, changelog, session_run, current_run_id, call, apc,
                   exec_log, escaped, update_result, apply_calls, prev>>
    /\ UNCHANGED <<workflow, config, result, source, changes, files, temp_dbs, download, scheduler_vars>>
    /\ UNCHANGED pc

\* apply_changes of invocation i returns: complete_update_run
InvocationEndApply(i) ==
    /\ Applying(i)
    /\ \E failed \in BOOLEAN :
          /\ update_runs' =
                complete_update_run(update_runs, invocations[i].run_id,
                    IF failed THEN "FAILED"
                    ELSE FinalStatus(invocations[i].pc = "dry_run"),
                    0, 0, 0, IF failed THEN InjectedError ELSE NULL)
          /\ invocations' =
                [invocations EXCEPT ![i].pc =
                    IF ~failed /\ invocations[i].pc = "dry_run"
                    THEN "dry_run_done" ELSE "done"]
    /\ UNCHANGED <<store, conn, changelog, session_run, current_run_id, call, apc,
                   exec_log, escaped, update_result, apply_calls, prev>>
    /\ UNCHANGED <<workflow, config, result, source, changes, files, temp_dbs, download, scheduler_vars>>
    /\ UNCHANGED pc

TriggerNext ==
    \E i \in 1..MaxInvocations :
        \/ Trigger(i)
        \/ InvocationDataSource(i)
        \/ InvocationChangeDetection(i)
        \/ InvocationBeginApply(i)
        \/ InvocationEndApply(i)

TriggerSpec == Init /\ [][TriggerNext]_vars

\* ------------------------------------------------------ rows of two schemas
(* The master database and the temporary database are created at different  *)
(* times from the schema file, so a table can have a column in one of them   *)
(* that the other lacks: the row dicts of SELECT * then differ in their keys. *)
ExtraColumn == "rating"
ExtraValue == "4 stars"
Drifts == {"without_name", "with_rating", "with_null_rating"}

DictWith(d, f, v) == [g \in (DOMAIN d) \cup {f} |-> IF g = f THEN v ELSE d[g]]

DriftedRow(row, drift) ==
    CASE drift = "without_name" -> DictWithout(row, {"name"})
      [] drift = "with_rating" -> DictWith(row, ExtraColumn, ExtraValue)
      [] drift = "with_null_rating" -> DictWith(row, ExtraColumn, NULL)

Drifted(db, drift) ==
    [t \in DOMAIN db |-> [i \in DOMAIN db[t] |-> DriftedRow(db[t][i], drift)]]

\* compare_databases called on the configured database and a comparison database
\* whose tables lack a column of the master or have one more
CallCompareDrifted ==
    /\ pc = "idle"
    /\ \E s \in Snapshots, drift \in Drifts :
          /\ source' = Drifted(s, drift)
          /\ changes' = compare_databases(store, Drifted(s, drift))
    /\ pc' = "compared"
    /\ UNCHANGED <<workflow, config, result, files, temp_dbs, invocations, download, scheduler_vars>>
    /\ UNCHANGED apply_vars

DriftNext == CallCompareDrifted

DriftSpec == Init /\ [][DriftNext]_vars

\* ------------------------------------------------- download with retries
(* DataSourceManager.download_latest_ttl, one step per iteration of its     *)
(* retry loop.  The body of the try block ends in one of four ways.          *)
AttemptOutcomes == {"ok", "request_failed", "write_interrupted", "size_mismatch"}

\* the files on disk when the try block of an attempt ends: requests.get or
\* raise_for_status fails before open(target_path, 'wb'); every other outcome
\* has created the target file
written_by(fs, path, outcome) ==
    IF outcome = "request_failed" THEN fs ELSE fs \cup {path}

remove_partial_noop(fs, path) == fs

\* except block: if os.path.exists(target_path): os.remove(target_path)
remove_partial(fs, path) == fs \ {path}

\* for attempt in range(self.max_retries): is there another iteration
attempts_left(d) == Len(d.attempts) < d.max_retries

\* a call of download_latest_ttl by a manager configured with max_retries = m
StartDownload ==
    /\ download.status = "none"
    /\ \E m \in 0..MaxRetries :
          download' = [status |-> "running", max_retries |-> m, attempts |-> <<>>]
    /\ UNCHANGED <<workflow, config, result, source, changes, files, temp_dbs, invocations>>
    /\ UNCHANGED <<apply_vars, pc, scheduler_vars>>

\* one iteration of the loop: the try block, and its except block on a failure
DownloadAttempt ==
    /\ download.status = "running"
    /\ attempts_left(download)
    /\ \E outcome \in AttemptOutcomes :
          LET written == written_by(files, DownloadPath, outcome) IN
          IF outcome = "ok"
          THEN /\ files' = written
               /\ download' = [download EXCEPT !.status = "returned",
                                               !.attempts = Append(@, outcome)]
          ELSE /\ files' = remove_partial(written, DownloadPath)
               /\ download' = [download EXCEPT !.attempts = Append(@, outcome)]
    /\ UNCHANGED <<workflow, config, result, source, changes, temp_dbs, invocations>>
    /\ UNCHANGED <<apply_vars, pc, scheduler_vars>>

\* after the loop: raise RuntimeError("Download failed after N attempts ...")
RaiseDownloadFailed ==
    /\ download.status = "running"
    /\ ~attempts_left(download)
    /\ download' = [download EXCEPT !.status = "raised"]
    /\ UNCHANGED <<workflow, config, result, source, changes, files, temp_dbs, invocations>>
    /\ UNCHANGED <<apply_vars, pc, scheduler_vars>>

DownloadNext ==
    \/ StartDownload
    \/ DownloadAttempt
    \/ RaiseDownloadFailed

\* the loop is sequential code and every request has a timeout, so a started
\* call keeps taking its steps
DownloadSpec ==
    Init /\ [][DownloadNext]_vars
         /\ WF_vars(DownloadAttempt) /\ WF_vars(RaiseDownloadFailed)

\* ----------------------------------------------------------- the scheduler
(* UpdateScheduler: the jobs, their failure counts and the job history.  A   *)
(* job execution runs the orchestrator; its results are inputs of the step.  *)
JobNames == {"nightly", "hourly"}
HistoryLimit == 100

\* ScheduleConfig: the fields the execution of a job reads
ScheduleConfig(name, enabled, run_validation_first, max_consecutive_failures) ==
    [name |-> name, enabled |-> enabled, run_validation_first |-> run_validation_first,
     max_consecutive_failures |-> max_consecutive_failures]

\* the configurations jobs are added with (enabled: bool = True); the nightly
\* job validates first, the hourly job runs the update directly
ScheduleConfigs ==
    {ScheduleConfig(n, TRUE, n = "nightly", m) : n \in JobNames, m \in 1..MaxFailureLimit}

\* UpdateScheduler.add_scheduled_job
AddScheduledJob ==
    /\ \E c \in ScheduleConfigs :
          /\ scheduled_jobs' = DictWith(scheduled_jobs, c.name, c)
          /\ failure_counts' = DictWith(failure_counts, c.name, 0)
    /\ UNCHANGED <<workflow, config, result, source, changes, files, temp_dbs, invocations>>
    /\ UNCHANGED <<apply_vars, pc, download, job_history>>

\* UpdateScheduler.remove_scheduled_job
RemoveScheduledJob ==
    /\ \E name \in JobNames :
          /\ name \in DOMAIN scheduled_jobs
          /\ scheduled_jobs' = DictWithout(scheduled_jobs, {name})
          /\ failure_counts' = DictWithout(failure_counts, {name})
    /\ UNCHANGED <<workflow, config, result, source, changes, files, temp_dbs, invocations>>
    /\ UNCHANGED <<apply_vars, pc, download, job_history>>

enable_job(jobs, job_name) == [jobs EXCEPT ![job_name].enabled = TRUE]
disable_job(jobs, job_name) == [jobs EXCEPT ![job_name].enabled = FALSE]

\* UpdateScheduler.enable_job
EnableJob ==
    /\ \E name \in JobNames :
          /\ name \in DOMAIN scheduled_jobs
          /\ scheduled_jobs' = enable_job(scheduled_jobs, name)
    /\ UNCHANGED <<workflow, config, result, source, changes, files, temp_dbs, invocations>>
    /\ UNCHANGED <<apply_vars, pc, download, failure_counts, job_history>>

\* UpdateScheduler.disable_job
DisableJob ==
    /\ \E name \in JobNames :
          /\ name \in DOMAIN scheduled_jobs
          /\ scheduled_jobs' = disable_job(scheduled_jobs, name)
    /\ UNCHANGED <<workflow, config, result, source, changes, files, temp_dbs, invocations>>
    /\ UNCHANGED <<apply_vars, pc, download, failure_counts, job_history>>

\* job_result.success from the results of the orchestrator calls
job_success(c, validation_success, workflow_success) ==
    IF c.run_validation_first
    THEN validation_success /\ workflow_success
    ELSE workflow_success

\* "Update failure count"
count_failure(counts, job_name, success) ==
    [counts EXCEPT ![job_name] = IF success THEN 0 ELSE @ + 1]

\* "Check if job should be disabled due to consecutive failures"
limit_reached(count, c) == count >= c.max_consecutive_failures

ScheduledJobResult(job_name, success, error_message, validation_only) ==
    [job_name |-> job_name, success |-> success, error_message |-> error_message,
     validation_only |-> validation_only]

\* finally: append the result, keep only the last HistoryLimit results
record_job(history, job_result) ==
    LET h == Append(history, job_result)
    IN  IF Len(h) > HistoryLimit THEN SubSeq(h, Len(h) - HistoryLimit + 1, Len(h)) ELSE h

\* UpdateScheduler._execute_scheduled_job of an enabled job; raises says that an
\* exception left the orchestrator calls
ExecuteScheduledJob ==
    /\ Len(job_history) < MaxExecutions
    /\ \E name \in JobNames, raises \in BOOLEAN,
          validation_success \in BOOLEAN, workflow_success \in BOOLEAN :
          /\ name \in DOMAIN scheduled_jobs
          /\ scheduled_jobs[name].enabled
          /\ LET c == scheduled_jobs[name]
                 success == job_success(c, validation_success, workflow_success)
                 counts == count_failure(failure_counts, name, success)
             IN  IF raises
                 THEN /\ failure_counts' = [failure_counts EXCEPT ![name] = @ + 1]
                      /\ scheduled_jobs' = scheduled_jobs
                      /\ job_history' =
                            record_job(job_history,
                                       ScheduledJobResult(name, FALSE, "exception", FALSE))
                 ELSE /\ failure_counts' = counts
                      /\ scheduled_jobs' =
                            IF limit_reached(counts[name], c)
                            THEN disable_job(scheduled_jobs, name)
                            ELSE scheduled_jobs
                      /\ job_history' =
                            record_job(job_history,
                                       ScheduledJobResult(name, success, NULL,
                                           c.run_validation_first /\ ~validation_success))
    /\ UNCHANGED <<workflow, config, result, source, changes, files, temp_dbs, invocations>>
    /\ UNCHANGED <<apply_vars, pc, download>>

SchedulerNext ==
    \/ AddScheduledJob
    \/ RemoveScheduledJob
    \/ EnableJob
    \/ DisableJob
    \/ ExecuteScheduledJob

SchedulerSpec == Init /\ [][SchedulerNext]_vars

\* -------------------------------------------------------------- properties
LogEntries == {exec_log[k] : k \in 1..Len(exec_log)}
CallRun == RunOf(call.run_id)
NonAudit(row) == DictWithout(row, AuditFields)
SameContent(t1, t2) ==
    /\ DOMAIN t1 = DOMAIN t2
    /\ \A i \in DOMAIN t1 : NonAudit(t1[i]) = NonAudit(t2[i])
PhaseFailed(p) == p \in DOMAIN result.phase_results /\ ~result.phase_results[p].success
PhaseSucceeded(p) == p \in DOMAIN result.phase_results /\ result.phase_results[p].success
\* the tables of the _execute_* calls, in call order, one entry per run of
\* consecutive calls on the same table
AppliedTables ==
    LET idx == SelectSeq([k \in 1..Len(exec_log) |-> k],
                         LAMBDA k : k = 1 \/ exec_log[k - 1].table # exec_log[k].table)
    IN  [j \in 1..Len(idx) |-> exec_log[idx[j]].table]
NonEmptyTables(cs) == {t \in DOMAIN cs : cs[t] # <<>>}
TotalOf(op) ==
    SumSeq([k \in 1..Len(CORE_TABLES) |-> changes.summary[CORE_TABLES[k]][op]])

\* C1: after apply_changes(change_set, dry_run = true) returns, every core table
\* of the production store holds the content it had before the call, and (no
\* error having been injected into the call) the UpdateRun the call created has
\* status DRY_RUN.
C1_DryRunLeavesStore ==
    (apc = "returned" /\ call.dry_run) =>
        /\ \A t \in Tables : store[t] = call.pre[t]
        /\ ~escaped => CallRun.status = "DRY_RUN"

C1_Witness ==
    /\ apc = "returned"
    /\ call.dry_run
    /\ ~escaped
    /\ CallRun.status = "DRY_RUN"
    /\ \E e \in LogEntries : e.operation = "INSERT" /\ e.sql = "dry_run"
    /\ \E e \in LogEntries : e.operation = "DELETE" /\ e.sql = "dry_run"

\* C2: when an error escapes the per-row handling of apply_changes with
\* dry_run = false, then on return every core table equals its content of before
\* the call, the UpdateRun of the call is FAILED with a non-empty error_message,
\* and UpdateResult.success is false.
C2_EscapedErrorRollsBack ==
    (apc = "returned" /\ ~call.dry_run /\ escaped) =>
        /\ \A t \in Tables : store[t] = call.pre[t]
        /\ CallRun.status = "FAILED"
        /\ CallRun.error_message \notin {NULL, ""}
        /\ ~update_result.success

C2_Witness ==
    /\ apc = "returned"
    /\ ~call.dry_run
    /\ escaped
    /\ CallRun.status = "FAILED"
    /\ \E e \in LogEntries : e.sql = "executed"

\* C3: with diff = compare_databases(production, comparison), after
\* apply_changes(diff, dry_run = false) succeeded with no row-level failure every
\* diffed table of the production store holds the rows of the comparison
\* snapshot (same ids, equal non-audit fields), and diffing the store against the
\* same snapshot again gives zero changes.
C3_ApplyDiffReachesSnapshot ==
    (/\ workflow = "full"
     /\ apc = "returned"
     /\ ~call.dry_run
     /\ update_result.success
     /\ \A e \in LogEntries : ~e.raised) =>
        /\ \A k \in 1..Len(CORE_TABLES) :
              SameContent(store[CORE_TABLES[k]], source[CORE_TABLES[k]])
        /\ compare_databases(store, source).total_changes = 0

C3_Witness ==
    /\ workflow = "full"
    /\ apc = "returned"
    /\ ~call.dry_run
    /\ update_result.success
    /\ \A e \in LogEntries : ~e.raised
    /\ TotalOf("INSERT") > 0
    /\ TotalOf("UPDATE") > 0
    /\ TotalOf("DELETE") > 0
    /\ compare_databases(store, source).total_changes = 0

\* C4: whatever the configuration and the outcome of its phases,
\* execute_validation_only never calls apply_changes with dry_run = false, and
\* no step of it changes the content of the production core tables.
C4_ValidationOnlyIsDry ==
    /\ [](workflow = "validation" =>
            \A k \in 1..Len(apply_calls) : apply_calls[k].dry_run)
    /\ [][workflow' = "validation" => store' = store]_vars

C4_Witness ==
    /\ workflow = "validation"
    /\ pc = "done"
    /\ ~config.dry_run_first
    /\ config.force_update
    /\ result.success
    /\ result.total_changes > 0
    /\ Len(apply_calls) = 1

\* C5: in execute_full_update_workflow with dry_run_first = true a call of
\* apply_changes with dry_run = false happens only after a dry-run call with the
\* same change-set has returned success in the same invocation; when the dry run
\* does not succeed no real apply is attempted and the workflow result has
\* success = false.
C5_RealApplyAfterDryRun ==
    (workflow = "full" /\ config.dry_run_first) =>
        /\ \A k \in 1..Len(apply_calls) :
              ~apply_calls[k].dry_run =>
                  \E j \in 1..(k - 1) :
                      /\ apply_calls[j].dry_run
                      /\ apply_calls[j].returned
                      /\ apply_calls[j].success
                      /\ apply_calls[j].changes_by_table = apply_calls[k].changes_by_table
        /\ \A j \in 1..Len(apply_calls) :
              (apply_calls[j].dry_run /\ apply_calls[j].returned
               /\ ~apply_calls[j].success) =>
                  /\ \A k \in 1..Len(apply_calls) : apply_calls[k].dry_run
                  /\ pc = "done" => ~result.success

C5_Witness ==
    /\ workflow = "full"
    /\ config.dry_run_first
    /\ Len(apply_calls) = 2
    /\ apply_calls[1].dry_run /\ apply_calls[1].success
    /\ ~apply_calls[2].dry_run /\ apply_calls[2].returned
    /\ \E e \in LogEntries : e.sql = "executed"

\* C6: in execute_full_update_workflow, when data-source acquisition or change
\* detection fails no later phase runs (apply_changes is never called, dry or
\* real), the returned result has success = false and at least one error
\* message, and finalization has set completed_at.
C6_PhaseFailureShortCircuits ==
    (workflow = "full"
     /\ (PhaseFailed("data_source") \/ PhaseFailed("change_detection"))) =>
        /\ pc = "done"
        /\ apply_calls = <<>>
        /\ apc = "none"
        /\ "update_processing" \notin DOMAIN result.phase_results
        /\ PhaseFailed("data_source") =>
              "change_detection" \notin DOMAIN result.phase_results
        /\ ~result.success
        /\ Len(result.error_messages) >= 1
        /\ result.completed_at

C6_Witness ==
    /\ workflow = "full"
    /\ pc = "done"
    /\ PhaseFailed("change_detection")
    /\ result.phase_results["data_source"].success
    /\ result.completed_at

\* C7: after a committed apply_changes (dry_run = false) the number of changelog
\* entries tagged with the returned run_id equals the number of row mutations the
\* run applied: every row the processor mutated during the run is in the Change
\* Ledger under that run's id.
C7_ChangelogTaggedWithRun ==
    (/\ apc = "returned"
     /\ ~call.dry_run
     /\ update_result.success
     /\ \A e \in LogEntries : ~e.raised) =>
        Cardinality({k \in 1..Len(changelog) : changelog[k].run_id = update_result.run_id})
            = Cardinality({k \in 1..Len(exec_log) : exec_log[k].sql = "executed"})

\* C8: for a change-set with an INSERT into a dependent table (addresses,
\* contact_points, geometries) whose new row references a logies row through
\* logies_id, and an INSERT of that logies row, apply_changes executes the INSERT
\* into logies before the INSERT into the dependent table.
C8_DependedUponTableFirst ==
    \A i, j \in 1..Len(exec_log) :
        (/\ exec_log[i].operation = "INSERT"
         /\ exec_log[i].table \in DependentTables
         /\ exec_log[j].operation = "INSERT"
         /\ exec_log[j].table = "logies"
         /\ exec_log[i].ref = exec_log[j].entity_id) => j < i

\* C9: apply_changes applies every table of the change-set with a non-empty
\* change list exactly once, in the fixed order identifiers, geometries,
\* contact_points, addresses, logies, tourist_attractions.
C9_AllTablesInFixedOrder ==
    (apc = "returned" /\ ~escaped) =>
        AppliedTables =
            SelectSeq(<<"identifiers", "geometries", "contact_points", "addresses",
                        "logies", "tourist_attractions">>,
                      LAMBDA t : t \in NonEmptyTables(call.changes_by_table))

\* C10: a row-level failure inside a batch (a constraint violation, an INSERT
\* whose new_values is null) does not abort apply_changes: the rows after it are
\* executed with their normal effect, and with dry_run = false the rows that
\* executed are committed and the run ends COMPLETED.
C10_RowFailureIsLocal ==
    (apc = "returned" /\ ~escaped) =>
        /\ \A e \in LogEntries : e.sql # "in_failed_transaction"
        /\ ~call.dry_run =>
              /\ CallRun.status = "COMPLETED"
              /\ \A e \in LogEntries :
                    (e.operation = "INSERT" /\ e.sql = "executed") =>
                        e.entity_id \in DOMAIN store[e.table]

\* C11: after apply_changes returns, UpdateResult.records_failed is the number of
\* row-level operations that failed and were skipped, each such failure has an
\* entry in UpdateResult.error_messages, and
\* records_processed = records_applied + records_failed.
C11_FailuresAreCounted ==
    (apc = "returned" /\ ~escaped) =>
        /\ update_result.records_failed
              = Cardinality({k \in 1..Len(exec_log) : exec_log[k].raised})
        /\ Len(update_result.error_messages)
              >= Cardinality({k \in 1..Len(exec_log) : exec_log[k].raised})
        /\ update_result.records_processed
              = update_result.records_applied + update_result.records_failed

\* C12: for the same change-set and the same store state, apply_changes with
\* dry_run = true executes every intended statement and so reports the same
\* per-table per-operation applied counts and the same row-level failures as
\* apply_changes with dry_run = false; the two differ only in ROLLBACK and
\* DRY_RUN instead of COMMIT and COMPLETED.
C12_DryRunMirrorsRealApply ==
    (/\ apc = "returned"
     /\ ~call.dry_run
     /\ ~escaped
     /\ Len(apply_calls) = 2
     /\ apply_calls[1].dry_run
     /\ apply_calls[1].success
     /\ apply_calls[1].changes_by_table = call.changes_by_table) =>
        /\ prev.result.summary = update_result.summary
        /\ Len(prev.log) = Len(exec_log)
        /\ \A k \in 1..Len(exec_log) : prev.log[k].raised = exec_log[k].raised
        /\ \A k \in 1..Len(exec_log) :
              exec_log[k].sql = "zero_rows" <=> prev.log[k].sql = "zero_rows"

C14_OneRunAtATime ==
    /\ Cardinality({k \in 1..Len(update_runs) : update_runs[k].status = "RUNNING"}) <= 1
    /\ Cardinality({i \in 1..MaxInvocations : Applying(i)}) <= 1

\* C15: in the full workflow, when the data source phase succeeded with
\* has_changes = false and force_update = false the workflow returns success with
\* total_changes = 0 and has run neither change detection nor any apply_changes;
\* with force_update = true the workflow goes on to change detection whatever
\* has_changes is.
C15_NoChangesShortCircuit ==
    (workflow = "full" /\ PhaseSucceeded("data_source")) =>
        /\ (~result.phase_results["data_source"].has_changes /\ ~config.force_update) =>
              /\ pc = "done"
              /\ result.success
              /\ result.total_changes = 0
              /\ "change_detection" \notin DOMAIN result.phase_results
              /\ changes = NoChanges
              /\ apply_calls = <<>>
              /\ update_runs = <<>>
        /\ config.force_update =>
              \/ pc = "change_detection"
              \/ "change_detection" \in DOMAIN result.phase_results

C15_Witness ==
    /\ workflow = "full"
    /\ pc = "done"
    /\ PhaseSucceeded("data_source")
    /\ ~result.phase_results["data_source"].has_changes
    /\ ~config.force_update
    /\ result.success
    /\ result.warning_messages = <<"No changes detected in source data">>

\* C16: whenever execute_full_update_workflow or execute_validation_only has
\* returned (temp_cleanup enabled), on the success path and on every failure
\* path, every temporary comparison database created during the invocation has
\* been dropped and every downloaded TTL file has been removed.
C16_ReturnLeavesNoTempResources ==
    (pc = "done" /\ config.temp_cleanup) => (temp_dbs = {} /\ files = {})

\* C17: if create_temp_database_from_ttl fails at any step (database creation,
\* schema installation, TTL import, missing file) it raises, the partially
\* created temporary database does not exist when the call has returned, and the
\* baseline database is not modified by the call.
C17_FailedSnapshotIsTornDown ==
    /\ [](\A fail_step \in FailSteps :
            LET r == create_temp_database_from_ttl(temp_dbs, fail_step)
            IN  r.raised /\ TempDb \notin r.dbs /\ r.temp_db_name = NULL)
    /\ []((PhaseFailed("change_detection")
           /\ result.phase_results["change_detection"].error \in FailSteps) =>
              (temp_dbs = {} /\ changes = NoChanges))
    /\ [][pc = "change_detection" => (store' = store /\ conn' = conn)]_vars

C17_Witness ==
    /\ pc = "done"
    /\ PhaseFailed("change_detection")
    /\ result.phase_results["change_detection"].error = "import"
    /\ ~result.success
    /\ temp_dbs = {}

\* C18: every apply_changes call creates exactly one UpdateRun with status
\* RUNNING before it touches any core table; when the call returns that run has
\* made one transition to a terminal status: COMPLETED for a committed apply,
\* DRY_RUN for a dry run, FAILED otherwise; a returned call leaves no run RUNNING
\* and a terminal run never changes again.
C18_RunLifecycle ==
    /\ [](Len(update_runs) = Len(apply_calls))
    /\ [](apc = "started" =>
            (CallRun.status = "RUNNING" /\ exec_log = <<>> /\ store = call.pre))
    /\ [](\A k \in 1..Len(update_runs) :
            update_runs[k].status = "RUNNING" =>
                (k = Len(update_runs) /\ apc \in {"started", "processed"}))
    /\ [][(apc = "processed" /\ apc' = "returned") =>
             RunOf(call.run_id)'.status =
                 IF escaped THEN "FAILED"
                 ELSE IF call.dry_run THEN "DRY_RUN"
                 ELSE IF ~conn.aborted THEN "COMPLETED"
                 ELSE "FAILED"]_vars
    /\ [][\A k \in 1..Len(update_runs) :
             update_runs[k].status # "RUNNING" => update_runs'[k] = update_runs[k]]_vars

\* C19: comparing a snapshot against itself (baseline rows equal to comparison
\* rows in every table) yields an empty change list for every table and
\* total_changes = 0.
C19_SelfComparisonIsEmpty ==
    (pc = "compared" /\ source = store) =>
        /\ changes.total_changes = 0
        /\ \A k \in 1..Len(CORE_TABLES) :
              /\ changes.changes_by_table[CORE_TABLES[k]] = <<>>
              /\ changes.summary[CORE_TABLES[k]] = ZeroSummary

C19_Witness ==
    /\ pc = "compared"
    /\ source = store
    /\ Cardinality(DOMAIN store["logies"]) = MaxId
    /\ store["identifiers"] # EmptyTable
    /\ changes.total_changes = 0

\* the changes compare_databases reported for entity id i of table t
ChangesOf(t, i) ==
    SelectSeq(changes.changes_by_table[t], LAMBDA c : c.entity_id = i)
Reported(t, i, op) ==
    \E k \in 1..Len(ChangesOf(t, i)) : ChangesOf(t, i)[k].operation = op

ReportedChanges(op) ==
    UNION {{changes.changes_by_table[CORE_TABLES[n]][k]
               : k \in {j \in 1..Len(changes.changes_by_table[CORE_TABLES[n]]) :
                           changes.changes_by_table[CORE_TABLES[n]][j].operation = op}}
           : n \in 1..Len(CORE_TABLES)}
SeqRange(q) == {q[k] : k \in 1..Len(q)}

C22_SummaryMatchesChanges ==
    pc \in {"compared", "update_processing"} =>
        /\ DOMAIN changes.summary = DOMAIN changes.changes_by_table
        /\ \A t \in DOMAIN changes.changes_by_table :
              Len(changes.changes_by_table[t]) =
                  changes.summary[t]["INSERT"] + changes.summary[t]["UPDATE"]
                  + changes.summary[t]["DELETE"]
        /\ changes.total_changes =
              Cardinality(ReportedChanges("INSERT")) + Cardinality(ReportedChanges("UPDATE"))
              + Cardinality(ReportedChanges("DELETE"))

C22_Witness ==
    /\ pc = "update_processing"
    /\ changes.total_changes = 3
    /\ changes.summary["logies"] = [ZeroSummary EXCEPT !["UPDATE"] = 1, !["DELETE"] = 1]
    /\ changes.summary["addresses"] = [ZeroSummary EXCEPT !["INSERT"] = 1]
    /\ Len(changes.changes_by_table["logies"]) = 2

\* C23: every EntityChange of the differ has a non-null entity_id, an
\* entity_type that is one of the compared tables, and the shape of its
\* operation: INSERT has old_values null and new_values populated, DELETE has
\* old_values populated and new_values null, UPDATE has old_values, new_values
\* and changed_fields all non-null.
C23_ChangeShapeMatchesOperation ==
    pc \in {"compared", "update_processing"} =>
        \A t \in DOMAIN changes.changes_by_table :
            \A k \in 1..Len(changes.changes_by_table[t]) :
                LET c == changes.changes_by_table[t][k]
                IN  /\ c.entity_id # NULL
                    /\ c.entity_type = t
                    /\ t \in SeqRange(CORE_TABLES)
                    /\ c.operation \in {"INSERT", "UPDATE", "DELETE"}
                    /\ c.operation = "INSERT" =>
                          (c.old_values = None /\ Truthy(c.new_values)
                           /\ c.changed_fields = None)
                    /\ c.operation = "DELETE" =>
                          (Truthy(c.old_values) /\ c.new_values = None
                           /\ c.changed_fields = None)
                    /\ c.operation = "UPDATE" =>
                          (IsSome(c.old_values) /\ IsSome(c.new_values)
                           /\ IsSome(c.changed_fields))

C23_Witness ==
    /\ pc = "compared"
    /\ ReportedChanges("INSERT") # {}
    /\ ReportedChanges("DELETE") # {}
    /\ ReportedChanges("UPDATE") # {}

\* C24: compare_databases runs the differ over every core table (logies,
\* tourist_attractions, addresses, contact_points, geometries, identifiers) and
\* the relationship tables: a row added, removed or changed between baseline and
\* comparison in any of these tables appears as a change in the result.
C24_EveryTableIsCompared ==
    pc = "compared" =>
        \A t \in Tables : \A i \in Ids :
            (\/ (i \in DOMAIN store[t]) # (i \in DOMAIN source[t])
             \/ /\ i \in DOMAIN store[t] \cap DOMAIN source[t]
                /\ NonAudit(store[t][i]) # NonAudit(source[t][i])) =>
                /\ t \in DOMAIN changes.changes_by_table
                /\ \E k \in 1..Len(changes.changes_by_table[t]) :
                      changes.changes_by_table[t][k].entity_id = i

\* what apply_changes does to the tables of the current call when it is given
\* batch size b and no batch raises
AppliedWithBatchSize(b) ==
    apply_tables(ApplyState(Connection(call.pre), session_run["processor"], 0,
                            [NoResult EXCEPT !.run_id = call.run_id]),
                 table_order, call.changes_by_table, call.dry_run, b)

\* C25: for every change-set and every batch_size >= 1, apply_changes performs
\* the same row operations in the same order, reaches the same store content and
\* reports the same UpdateResult counts (records_processed, records_applied,
\* per-table summary) as with any other batch_size >= 1.
C25_BatchSizeIsSemanticsFree ==
    (apc = "processed" /\ ~escaped) =>
        \A b \in 1..(MaxChanges + 1) :
            \E r \in {AppliedWithBatchSize(b)} :
                /\ ~r.escaped
                /\ r.log = exec_log
                /\ r.conn = conn
                /\ r.res = update_result

C25_Witness ==
    /\ apc = "processed"
    /\ ~escaped
    /\ ~call.dry_run
    /\ call.batch_size = 1
    /\ Len(exec_log) = 2
    /\ exec_log[1].operation = exec_log[2].operation
    /\ exec_log[1].table = exec_log[2].table
    /\ exec_log[1].sql = "executed" /\ exec_log[2].sql = "executed"
    /\ update_result.records_applied = 2

\* C26: in execute_full_update_workflow with force_update = false, if the hash or
\* the size of the newly downloaded file differs from that of the previously
\* processed download, the data source phase reports has_changes = true and the
\* workflow goes on to change detection instead of returning 'no changes';
\* has_changes is false only when hash and size are both unchanged.
C26_ChangedDownloadIsDetected ==
    (workflow = "full" /\ PhaseSucceeded("data_source")) =>
        LET r == result.phase_results["data_source"]
            differs == r.file_hash # PreviousDownload.hash
                       \/ r.file_size # PreviousDownload.size
        IN  /\ r.has_changes <=> differs
            /\ (differs /\ ~config.force_update) =>
                  \/ pc = "change_detection"
                  \/ "change_detection" \in DOMAIN result.phase_results

OperationRank(op) == CASE op = "DELETE" -> 1 [] op = "UPDATE" -> 2 [] op = "INSERT" -> 3

\* C29: within one table apply_changes executes all DELETE changes before any
\* UPDATE change and all UPDATE changes before any INSERT change, whatever their
\* order in the table's change list and whatever the batch_size.
C29_DeleteUpdateInsertOrder ==
    apc \in {"processed", "returned"} =>
        \A j, k \in 1..Len(exec_log) :
            (j < k /\ exec_log[j].table = exec_log[k].table) =>
                OperationRank(exec_log[j].operation) <= OperationRank(exec_log[k].operation)

C29_Witness ==
    /\ apc = "returned"
    /\ call.batch_size = 1
    /\ "logies" \in DOMAIN call.changes_by_table
    /\ Len(call.changes_by_table["logies"]) = 2
    /\ call.changes_by_table["logies"][1].operation = "INSERT"
    /\ call.changes_by_table["logies"][2].operation = "DELETE"
    /\ Len(exec_log) = 2
    /\ exec_log[1].operation = "DELETE" /\ exec_log[1].table = "logies"
    /\ exec_log[2].operation = "INSERT" /\ exec_log[2].table = "logies"

\* the fields that are a key of exactly one of two rows
OneSidedFields(master_row, comparison_row) ==
    ((DOMAIN master_row) \ (DOMAIN comparison_row))
    \cup ((DOMAIN comparison_row) \ (DOMAIN master_row))

\* C30: when two rows share an id and a field key is present in one row and
\* missing from the other (only in the baseline row, or only in the comparison
\* row), the missing side compares as null: if the present value is non-null the
\* entity is reported as an UPDATE whose changed_fields contains that field.
C30_MissingKeyComparesAsNull ==
    pc = "compared" =>
        \A n \in 1..Len(CORE_TABLES) :
            \A i \in DOMAIN store[CORE_TABLES[n]] \cap DOMAIN source[CORE_TABLES[n]] :
                \A f \in OneSidedFields(store[CORE_TABLES[n]][i], source[CORE_TABLES[n]][i]) :
                    (DictGet(store[CORE_TABLES[n]][i], f) # NULL
                     \/ DictGet(source[CORE_TABLES[n]][i], f) # NULL) =>
                        \E c \in ReportedChanges("UPDATE") :
                            /\ c.entity_type = CORE_TABLES[n]
                            /\ c.entity_id = i
                            /\ f \in SeqRange(Val(c.changed_fields))

\* the number of operations op that the call counted as applied, over all tables
AppliedOf(op) ==
    SumSeq([k \in 1..Len(table_order) |->
               IF table_order[k] \in DOMAIN update_result.summary
               THEN update_result.summary[table_order[k]][op] ELSE 0])

\* C31: after apply_changes has completed a run, the UpdateRun's records_added,
\* records_updated and records_deleted are the numbers of INSERT, UPDATE and
\* DELETE operations the run applied, summed over all tables, so that
\* get_processing_statistics(run_id).total_changes = UpdateResult.records_applied.
C31_RunCountsMatchApplied ==
    (apc = "returned" /\ ~escaped) =>
        /\ CallRun.records_added = AppliedOf("INSERT")
        /\ CallRun.records_updated = AppliedOf("UPDATE")
        /\ CallRun.records_deleted = AppliedOf("DELETE")
        /\ CallRun.records_added + CallRun.records_updated + CallRun.records_deleted
              = update_result.records_applied

\* C32: apply_changes sets the run context at its start and, when it returns on
\* the success, the dry-run and the failure path alike, the context has been
\* cleared (the tracker's current_run_id is None), so nothing done after the call
\* is tagged with the finished run's id.
C32_RunContextIsCleared ==
    /\ apc \in {"started", "processed"} =>
          (session_run["tracker"] = call.run_id /\ current_run_id = call.run_id)
    /\ apc = "returned" =>
          /\ current_run_id = NULL
          /\ \A c \in DOMAIN session_run : session_run[c] = NULL

C32_Witness ==
    /\ apc = "returned"
    /\ escaped
    /\ CallRun.status = "FAILED"
    /\ Len(apply_calls) = 2
    /\ apply_calls[1].dry_run /\ apply_calls[1].success
    /\ current_run_id = NULL
    /\ session_run["tracker"] = NULL


FailedAttempts == {k \in 1..Len(download.attempts) : download.attempts[k] # "ok"}

\* C33: download_latest_ttl makes at most max_retries attempts and then ends;
\* after a failed attempt no file is left at the target path, and when every
\* attempt has failed the call raises and no file exists at the target path.
C33_DownloadRetries ==
    /\ []( /\ Len(download.attempts) <= download.max_retries
           /\ (download.status = "running" => DownloadPath \notin files)
           /\ (download.status = "raised" =>
                  /\ Cardinality(FailedAttempts) = download.max_retries
                  /\ DownloadPath \notin files)
           /\ (download.status = "returned" =>
                  /\ download.attempts[Len(download.attempts)] = "ok"
                  /\ DownloadPath \in files) )
    /\ (download.status = "running") ~> (download.status \in {"returned", "raised"})

C33_Witness ==
    /\ download.status = "raised"
    /\ download.max_retries = MaxRetries
    /\ \E k \in 1..Len(download.attempts) : download.attempts[k] = "write_interrupted"
    /\ download.attempts[Len(download.attempts)] = "size_mismatch"
    /\ DownloadPath \notin files

\* the changes of the current call that name row i of table t
CallChanges(t, i, op) ==
    IF t \in DOMAIN call.changes_by_table
    THEN {c \in SeqRange(call.changes_by_table[t]) : c.entity_id = i /\ c.operation = op}
    ELSE {}
ListedForUpdate(t, i, f) ==
    \E c \in CallChanges(t, i, "UPDATE") :
        IsSome(c.changed_fields) /\ f \in SeqRange(Val(c.changed_fields))
SystemFields == {"id", "created_at", "updated_at"}

\* statement of kind op that the current call executed on row i of table t
Executed(t, i, op) ==
    \E k \in 1..Len(exec_log) :
        /\ exec_log[k].table = t /\ exec_log[k].entity_id = i
        /\ exec_log[k].operation = op /\ exec_log[k].sql = "executed"

\* C34: in the working tables of a real apply_changes call, a row that was there
\* before the call and that the call did not delete differs from its former self
\* only in fields that an UPDATE change for it lists in changed_fields, and never
\* in id, created_at or updated_at; a row the call inserted carries the
\* database's own created_at and updated_at, not those of new_values; a row is
\* gone only if the call executed a DELETE for it, so every row that no change
\* names is as it was.
C34_UpdateTouchesListedFieldsOnly ==
    (apc = "processed" /\ ~call.dry_run) =>
        \A t \in Tables :
            /\ \A i \in DOMAIN conn.work[t] :
                  IF i \in DOMAIN call.pre[t] /\ ~Executed(t, i, "DELETE")
                  THEN \A f \in DOMAIN conn.work[t][i] :
                          conn.work[t][i][f] # call.pre[t][i][f] =>
                              (f \notin SystemFields /\ ListedForUpdate(t, i, f))
                  ELSE /\ Executed(t, i, "INSERT")
                       /\ conn.work[t][i].created_at = TNow
                       /\ conn.work[t][i].updated_at = TNow
            /\ \A i \in (DOMAIN call.pre[t]) \ (DOMAIN conn.work[t]) :
                  Executed(t, i, "DELETE")

C34_Witness ==
    /\ apc = "processed" /\ ~call.dry_run
    /\ \E k \in 1..Len(exec_log) :
          /\ exec_log[k].operation = "UPDATE" /\ exec_log[k].sql = "executed"
          /\ ListedForUpdate("logies", exec_log[k].entity_id, "id")
    /\ \E k \in 1..Len(exec_log) :
          exec_log[k].operation = "INSERT" /\ exec_log[k].sql = "executed"
    /\ IdName[1] \in DOMAIN conn.work["logies"]
    /\ conn.work["logies"][IdName[1]] = Row(IdName[1], NewName, NULL, TLoad)

\* the UPDATE changes of the current call for row i of table t all have an
\* empty changed_fields list
OnlyEmptyUpdates(t, i) ==
    /\ CallChanges(t, i, "UPDATE") # {}
    /\ \A c \in CallChanges(t, i, "UPDATE") : c.changed_fields = Some(<<>>)
EmptyUpdateCall(k) ==
    /\ exec_log[k].operation = "UPDATE"
    /\ OnlyEmptyUpdates(exec_log[k].table, exec_log[k].entity_id)
MissingRowDelete(k) ==
    /\ exec_log[k].operation = "DELETE"
    /\ exec_log[k].sql = "zero_rows"

\* C35: in an apply_changes call, the _execute_update call for an UPDATE change
\* with an empty changed_fields list and the _execute_delete call for an id that
\* matches no row do not raise, so they count as applied and not as failed; and
\* a real call made of such changes only leaves every table as it was and ends
\* with its run COMPLETED.
C35_EmptyUpdateAndMissingDeleteAreNoOps ==
    apc \in {"processed", "returned"} =>
        /\ \A k \in 1..Len(exec_log) :
              (EmptyUpdateCall(k) \/ MissingRowDelete(k)) => ~exec_log[k].raised
        /\ (/\ apc = "returned" /\ ~escaped /\ ~call.dry_run /\ exec_log # <<>>
            /\ \A k \in 1..Len(exec_log) : EmptyUpdateCall(k) \/ MissingRowDelete(k))
              => /\ store = call.pre
                 /\ CallRun.status = "COMPLETED"
                 /\ update_result.records_applied = update_result.records_processed

\* C36: between executions every enabled scheduled job has a failure count below
\* its max_consecutive_failures: a successful execution resets the count, and the
\* execution that brings the count to the limit, by an unsuccessful result or by
\* an exception, disables the job until enable_job is called.
C36_EnabledJobsAreBelowTheLimit ==
    \A name \in DOMAIN scheduled_jobs :
        scheduled_jobs[name].enabled =>
            failure_counts[name] < scheduled_jobs[name].max_consecutive_failures

====
